---------------------------- MODULE Spec2Model ----------------------------
(***************************************************************************)
(* Model of analise-acoes-dashboard.py: the value formatter, the retrieval *)
(* adapter, the price chart builder, the valuation snapshot and the        *)
(* Streamlit script that wires them.                                        *)
(*                                                                         *)
(* Conventions.                                                            *)
(*  - A Python str is a tuple of one-character strings.                    *)
(*  - A money amount or a ratio is an integer number of hundredths         *)
(*    (1234.5 is 123450, 0.05 is 5), wrapped as Num(n); the float NaN and  *)
(*    Python's None are the records NaN and NoneV.                         *)
(*  - A date is a day number.                                              *)
(*  - A price history (DataFrame) is the tuple of its Close column.        *)
(*  - A dict is a tuple of [key, value] records in insertion order.        *)
(***************************************************************************)
EXTENDS Integers, Sequences, FiniteSets, TLC

VARIABLES
    \* formatar_valor called on its own
    fv_valor, fv_tipo, fv_ret,
    \* criar_grafico_com_linhas called on its own
    cg_history, cg_ret,
    \* the valuation snapshot of one metadata record
    vl_info, vl_ret,
    \* the Streamlit script: widget values and what the last run showed
    tickers, tipo_periodo, intervalo, data_inicio, data_final,
    start_date, end_date, sidebar_error, botao,
    dados, erros, chamadas, propagou, aviso, abas

fvVars == <<fv_valor, fv_tipo, fv_ret>>
cgVars == <<cg_history, cg_ret>>
vlVars == <<vl_info, vl_ret>>
appVars == <<tickers, tipo_periodo, intervalo, data_inicio, data_final,
             start_date, end_date, sidebar_error, botao,
             dados, erros, chamadas, propagou, aviso, abas>>
vars == <<fvVars, cgVars, vlVars, appVars>>

(***************************************************************************)
(* Values                                                                  *)
(***************************************************************************)
Num(n) == [k |-> "num", n |-> n]
NaN == [k |-> "nan"]
NoneV == [k |-> "none"]
Pendente == [k |-> "pendente"]
Texto(s) == [k |-> "str", s |-> s]

\* pd.isna
isna(valor) == valor.k \in {"nan", "none"}

(***************************************************************************)
(* Strings                                                                 *)
(***************************************************************************)
DigitChars == <<"0", "1", "2", "3", "4", "5", "6", "7", "8", "9">>

\* decimal digits of a natural number, ungrouped
RECURSIVE Digitos(_)
Digitos(n) ==
    IF n < 10 THEN <<DigitChars[n + 1]>>
    ELSE Digitos(n \div 10) \o <<DigitChars[(n % 10) + 1]>>

\* the "," option of the format mini-language: groups of three from the right
RECURSIVE Agrupado(_)
Agrupado(n) ==
    IF n < 1000 THEN Digitos(n)
    ELSE Agrupado(n \div 1000) \o <<",">>
         \o <<DigitChars[((n \div 100) % 10) + 1],
              DigitChars[((n \div 10) % 10) + 1],
              DigitChars[(n % 10) + 1]>>

\* f"{x:,.2f}" (agrupar) and f"{x:.2f}" for x = c hundredths
FormatoF2(c, agrupar) ==
    LET a == IF c < 0 THEN -c ELSE c
        inteiro == a \div 100
        frac == a % 100
    IN  (IF c < 0 THEN <<"-">> ELSE <<>>)
        \o (IF agrupar THEN Agrupado(inteiro) ELSE Digitos(inteiro))
        \o <<".">>
        \o <<DigitChars[(frac \div 10) + 1], DigitChars[(frac % 10) + 1]>>

\* str.replace(old, new) for one-character old and new
RECURSIVE ReplaceAll(_, _, _)
ReplaceAll(s, old, new) ==
    IF s = <<>> THEN <<>>
    ELSE <<IF Head(s) = old THEN new ELSE Head(s)>> \o ReplaceAll(Tail(s), old, new)

\* str.replace(old, new, 1)
RECURSIVE ReplaceFirst(_, _, _)
ReplaceFirst(s, old, new) ==
    IF s = <<>> THEN <<>>
    ELSE IF Head(s) = old THEN <<new>> \o Tail(s)
    ELSE <<Head(s)>> \o ReplaceFirst(Tail(s), old, new)

IsPrefix(p, s) == Len(p) <= Len(s) /\ SubSeq(s, 1, Len(p)) = p

(***************************************************************************)
(* formatar_valor                                                          *)
(***************************************************************************)
formatar_valor(valor, tipo) ==
    IF isna(valor) THEN Texto(<<"N", "/", "A">>)
    ELSE IF tipo = "real" THEN
        Texto(ReplaceFirst(
                ReplaceAll(<<"R", "$", " ">> \o FormatoF2(valor.n, TRUE), ",", "."),
                ".", ","))
    ELSE IF tipo = "percentual" THEN
        Texto(FormatoF2(valor.n * 100, FALSE) \o <<"%">>)
    ELSE valor


(***************************************************************************)
(* dict                                                                     *)
(***************************************************************************)
DictKeys(d) == [i \in 1..Len(d) |-> d[i].key]
DictHas(d, key) == \E i \in 1..Len(d) : d[i].key = key
DictGet(d, key) == d[CHOOSE i \in 1..Len(d) : d[i].key = key].value

\* d[key] = value: an existing key keeps its place, a new key goes last
DictSet(d, key, value) ==
    IF DictHas(d, key)
    THEN [i \in 1..Len(d) |-> IF d[i].key = key
                              THEN [key |-> key, value |-> value] ELSE d[i]]
    ELSE Append(d, [key |-> key, value |-> value])

\* info.get(campo, default), info a mapping from field names to values
InfoGet(info, campo, default) ==
    IF campo \in DOMAIN info THEN info[campo] ELSE default

\* bool(v) for None, a float or a str
Truthy(v) ==
    CASE v.k = "none" -> FALSE
      [] v.k = "num" -> v.n # 0
      [] v.k = "str" -> v.s # <<>>
      [] OTHER -> TRUE

\* v * 100 for a float
Vezes100(v) == IF v.k = "num" THEN Num(v.n * 100) ELSE v

(***************************************************************************)
(* criar_grafico_com_linhas                                                *)
(***************************************************************************)
SeqRange(s) == {s[i] : i \in 1..Len(s)}
SerieMax(s) == CHOOSE m \in SeqRange(s) : \A x \in SeqRange(s) : x <= m
SerieMin(s) == CHOOSE m \in SeqRange(s) : \A x \in SeqRange(s) : m <= x

FechamentoAnterior(history) ==
    IF Len(history) > 1 THEN history[Len(history) - 1] ELSE history[Len(history)]

\* mutant of CorUltimo: ">=" for ">"
CorUltimoMaiorIgual(ultimo_fechamento, fechamento_anterior) ==
    IF ultimo_fechamento >= fechamento_anterior THEN "green" ELSE "red"

CorUltimo(ultimo_fechamento, fechamento_anterior) ==
    IF ultimo_fechamento > fechamento_anterior THEN "green" ELSE "red"

criar_grafico_com_linhas(history, ticker) ==
    IF history = <<>> THEN NoneV
    ELSE
        LET max_valor == SerieMax(history)
            min_valor == SerieMin(history)
            ultimo_fechamento == history[Len(history)]
            fechamento_anterior == FechamentoAnterior(history)
            cor_ultimo == CorUltimo(ultimo_fechamento, fechamento_anterior)
        IN  [k |-> "fig",
             linha |-> history,
             hline_max |-> [y |-> max_valor, cor |-> "green",
                            texto |-> <<"Maximo: ">> \o formatar_valor(Num(max_valor), "real").s],
             hline_min |-> [y |-> min_valor, cor |-> "red",
                            texto |-> <<"Minimo: ">> \o formatar_valor(Num(min_valor), "real").s],
             marcador |-> [x |-> Len(history), y |-> ultimo_fechamento, cor |-> cor_ultimo,
                           texto |-> formatar_valor(Num(ultimo_fechamento), "real").s],
             titulo |-> <<"Historico de Precos - ">> \o ticker]

(***************************************************************************)
(* valuation snapshot and criar_grafico_radar                              *)
(***************************************************************************)
CamposRazao == {"trailingPE", "forwardPE", "priceToBook"}
CamposPercentuais == {"dividendYield", "payoutRatio"}
CamposValuation == CamposRazao \cup CamposPercentuais

\* info.get(campo, 0) * 100 if info.get(campo) else 0
Percentual(info, campo) ==
    IF Truthy(InfoGet(info, campo, NoneV))
    THEN Vezes100(InfoGet(info, campo, Num(0)))
    ELSE Num(0)

valuation(info) ==
    << [key |-> "P/L (Preco/Lucro)", value |-> InfoGet(info, "trailingPE", Num(0))],
       [key |-> "P/L Projetado", value |-> InfoGet(info, "forwardPE", Num(0))],
       [key |-> "P/VP", value |-> InfoGet(info, "priceToBook", Num(0))],
       [key |-> "Dividend Yield (%)", value |-> Percentual(info, "dividendYield")],
       [key |-> "Payout Ratio (%)", value |-> Percentual(info, "payoutRatio")] >>

criar_grafico_radar(val, nome_ativo) ==
    [k |-> "radar",
     theta |-> DictKeys(val),
     r |-> [i \in 1..Len(val) |-> val[i].value],
     name |-> nome_ativo,
     titulo |-> <<"Grafico de Radar - ">> \o nome_ativo]

(***************************************************************************)
(* The provider (yfinance): what one Ticker(...).history(...) / .info can  *)
(* do.  A response is                                                      *)
(*   [k |-> "ok", history, info]        history (maybe empty) and metadata *)
(*   [k |-> "history_raises", e]        Ticker(...) or history(...) raises *)
(*   [k |-> "info_raises", history, e]  history is returned, .info raises  *)
(* and an exception e is [cls, msg], str(e) = e.msg.                       *)
(***************************************************************************)
Bases ==
    [ConnectionError |-> {"ConnectionError", "OSError", "Exception", "BaseException"},
     KeyError |-> {"KeyError", "LookupError", "Exception", "BaseException"}]

ErroConexao == [cls |-> "ConnectionError", msg |-> <<"timed out">>]
ErroChave == [cls |-> "KeyError", msg |-> <<"'quoteType'">>]

HistoricoA == <<1000, 1200>>
HistoricoB == <<123450>>

InfoCompleta ==
    [longName |-> Texto(<<"Petrobras">>), logo_url |-> Texto(<<"http://logo">>),
     trailingPE |-> Num(1500), forwardPE |-> Num(1250), priceToBook |-> Num(120),
     dividendYield |-> Num(5), payoutRatio |-> Num(40)]
InfoVazia == [c \in {} |-> NoneV]

Respostas ==
    { [k |-> "ok", history |-> HistoricoA, info |-> InfoCompleta],
      [k |-> "ok", history |-> HistoricoB, info |-> InfoVazia],
      [k |-> "ok", history |-> <<>>, info |-> InfoVazia],
      [k |-> "history_raises", e |-> ErroConexao],
      [k |-> "info_raises", history |-> HistoricoA, e |-> ErroChave] }

(***************************************************************************)
(* obter_dados_tickers                                                     *)
(***************************************************************************)
MsgSemDados == <<": Nenhum dado encontrado no intervalo especificado.">>
MsgErroAbre == <<": Erro ao buscar dados (">>
MsgErroFecha == <<").">>

\* mutant of DadosInicial: the mapping of the previous press is kept
DadosDoCliqueAnterior == dados

DadosInicial == <<>>
ErrosInicial == <<>>

\* mutant of Capturada: "except OSError" for "except Exception"
CapturadaSoOSError(e) == "OSError" \in Bases[e.cls]

\* except Exception as e
Capturada(e) == "Exception" \in Bases[e.cls]

\* mutant of CorpoTry: the history is stored without the test of line 29
CorpoTrySemTesteVazio(ticker, resposta) ==
    IF resposta.k = "history_raises" THEN [k |-> "raise", e |-> resposta.e]
    ELSE IF resposta.k = "info_raises" THEN [k |-> "raise", e |-> resposta.e]
    ELSE [k |-> "dados",
          value |-> [info |-> resposta.info, history |-> resposta.history]]

\* the body of the try block for one ticker, given what the provider does
CorpoTry(ticker, resposta) ==
    IF resposta.k = "history_raises" THEN [k |-> "raise", e |-> resposta.e]
    ELSE IF resposta.history = <<>> THEN
        [k |-> "erro", msg |-> ticker \o MsgSemDados]
    ELSE IF resposta.k = "info_raises" THEN [k |-> "raise", e |-> resposta.e]
    ELSE [k |-> "dados",
          value |-> [info |-> resposta.info, history |-> resposta.history]]

\* mutant of Iteracao: the except clause swallows the exception ("pass")
IteracaoExcecaoEngolida(acc, ticker, resposta, inicio, fim) ==
    LET r == CorpoTry(ticker, resposta)
        feita == Append(acc.chamadas,
                        [ticker |-> ticker, start |-> inicio, end |-> fim,
                         resposta |-> resposta])
    IN  CASE r.k = "dados" ->
               [acc EXCEPT !.dados = DictSet(@, ticker, r.value), !.chamadas = feita]
          [] r.k = "erro" ->
               [acc EXCEPT !.erros = Append(@, r.msg), !.chamadas = feita]
          [] OTHER ->
               [acc EXCEPT !.chamadas = feita]

\* one iteration of the for loop; acc.propagou: an exception left the function
Iteracao(acc, ticker, resposta, inicio, fim) ==
    LET r == CorpoTry(ticker, resposta)
        feita == Append(acc.chamadas,
                        [ticker |-> ticker, start |-> inicio, end |-> fim,
                         resposta |-> resposta])
    IN  CASE r.k = "dados" ->
               [acc EXCEPT !.dados = DictSet(@, ticker, r.value), !.chamadas = feita]
          [] r.k = "erro" ->
               [acc EXCEPT !.erros = Append(@, r.msg), !.chamadas = feita]
          [] r.k = "raise" /\ Capturada(r.e) ->
               [acc EXCEPT !.erros = Append(@, ticker \o MsgErroAbre \o r.e.msg \o MsgErroFecha),
                           !.chamadas = feita]
          [] OTHER ->
               [acc EXCEPT !.chamadas = feita, !.propagou = TRUE]

RECURSIVE Laco(_, _, _, _, _, _)
Laco(acc, tks, respostas, i, inicio, fim) ==
    IF i > Len(tks) \/ acc.propagou THEN acc
    ELSE Laco(Iteracao(acc, tks[i], respostas[i], inicio, fim),
              tks, respostas, i + 1, inicio, fim)

obter_dados_tickers(tks, inicio, fim, respostas) ==
    Laco([dados |-> DadosInicial, erros |-> ErrosInicial,
          chamadas |-> <<>>, propagou |-> FALSE],
         tks, respostas, 1, inicio, fim)

(***************************************************************************)
(* The script: widgets                                                     *)
(***************************************************************************)
\* str.strip() (whitespace is " ")
RECURSIVE LStrip(_)
LStrip(s) == IF s # <<>> /\ Head(s) = " " THEN LStrip(Tail(s)) ELSE s
RECURSIVE RStrip(_)
RStrip(s) ==
    IF s # <<>> /\ s[Len(s)] = " " THEN RStrip(SubSeq(s, 1, Len(s) - 1)) ELSE s
Strip(s) == RStrip(LStrip(s))

\* str.split(","): always at least one field
RECURSIVE SplitVirgula(_, _, _)
SplitVirgula(s, i, campo) ==
    IF i > Len(s) THEN <<campo>>
    ELSE IF s[i] = "," THEN <<campo>> \o SplitVirgula(s, i + 1, <<>>)
    ELSE SplitVirgula(s, i + 1, Append(campo, s[i]))

\* [ticker.strip() for ticker in tickers.split(",")]
ParseTickers(texto) ==
    LET campos == SplitVirgula(texto, 1, <<>>)
    IN  [i \in 1..Len(campos) |-> Strip(campos[i])]

Atalhos == "Atalhos Rapidos"
Personalizado == "Personalizado"
Intervalos == <<"7 dias", "30 dias", "90 dias", "12 meses">>

\* the day datetime.today() falls on
Dia0 == 400
today == Dia0

DiasDoIntervalo(intv) ==
    CASE intv = "7 dias" -> 7
      [] intv = "30 dias" -> 30
      [] intv = "90 dias" -> 90
      [] OTHER -> 365

\* mutant of ResolverPeriodo: the shortcut window runs forward from today
ResolverPeriodoParaFrente(tipo, intv, di, df) ==
    IF tipo = Atalhos
    THEN [start |-> today + DiasDoIntervalo(intv), end |-> today, erro |-> FALSE]
    ELSE [start |-> di, end |-> df, erro |-> di > df]

\* mutant of ResolverPeriodo: the validation compares with ">="
ResolverPeriodoMaiorIgual(tipo, intv, di, df) ==
    IF tipo = Atalhos
    THEN [start |-> today - DiasDoIntervalo(intv), end |-> today, erro |-> FALSE]
    ELSE [start |-> di, end |-> df, erro |-> di >= df]

\* lines 144-162: the date range of this run and whether st.sidebar.error shows
ResolverPeriodo(tipo, intv, di, df) ==
    IF tipo = Atalhos
    THEN [start |-> today - DiasDoIntervalo(intv), end |-> today, erro |-> FALSE]
    ELSE [start |-> di, end |-> df, erro |-> di > df]

(***************************************************************************)
(* The script: one tab per key of dados                                    *)
(***************************************************************************)
Aba(ticker, data) ==
    LET info == data.info
        history == data.history
        nome_ativo == InfoGet(info, "longName", Texto(ticker)).s
        logotipo == InfoGet(info, "logo_url", NoneV)
        val == valuation(info)
    IN  [ticker |-> ticker,
         header |-> ticker \o <<" - ">> \o nome_ativo,
         logo |-> IF Truthy(logotipo) THEN [k |-> "image", url |-> logotipo.s]
                  ELSE [k |-> "write"],
         grafico |-> IF history # <<>>
                     THEN [k |-> "plotly_chart",
                           fig |-> criar_grafico_com_linhas(history, ticker)]
                     ELSE [k |-> "warning"],
         history |-> history,
         valuation |-> val,
         radar |-> criar_grafico_radar(val, nome_ativo)]

Abas(d) == [i \in 1..Len(d) |-> Aba(d[i].key, d[i].value)]

(***************************************************************************)
(* Bounds and input sets                                                   *)
(***************************************************************************)
MaxTexto == 3
MaxTickers == 2
MaxSerie == 5
MaxCentavos == 1500

Alfabeto == {"A", ",", " "}
Textos == UNION {[1..n -> Alfabeto] : n \in 0..MaxTexto}
\* the default of the text field, "PETR4.SA, VALE3.SA"; each symbol is one token
TextoPadrao == <<"PETR4.SA", ",", " ", "VALE3.SA">>

DatasEscolhiveis == {today - 30, today}

InteirosGrandes == {999, 1000, 1234, 999999, 1000000, 1234567}
Centavos ==
    (0..MaxCentavos)
    \cup {w * 100 + f : w \in InteirosGrandes, f \in {0, 5, 50, 99}}
    \cup {-1250, -123450}
ValoresFV == {NaN, NoneV} \cup {Num(c) : c \in Centavos}
TiposFV == {"real", "percentual", "outro"}
\* valor * 100 stays within the model's integers for the percentage inputs
EntradasFV ==
    {e \in ValoresFV \X TiposFV :
        (e[2] = "percentual" /\ e[1].k = "num")
            => (e[1].n <= MaxCentavos /\ -e[1].n <= MaxCentavos)}

NiveisPreco == {800, 900, 1000, 1200, 1500, 2000}
Series == UNION {[1..n -> NiveisPreco] : n \in 0..MaxSerie}

Ausente == [k |-> "ausente"]
ValoresInfo == {Ausente, NoneV, Num(0), Num(5), Num(1500)}
InfoDe(f) == [c \in {c \in DOMAIN f : f[c] # Ausente} |-> f[c]]
Infos == {InfoDe(f) : f \in [CamposValuation -> ValoresInfo]}

(***************************************************************************)
(* The script: one run, top to bottom (lines 129-215)                      *)
(***************************************************************************)
Executar(tks, tipo, intv, di, df, pressionado, respostas) ==
    LET p == ResolverPeriodo(tipo, intv, di, df)
    IN  /\ tickers' = tks
        /\ tipo_periodo' = tipo
        /\ intervalo' = intv
        /\ data_inicio' = di
        /\ data_final' = df
        /\ start_date' = p.start
        /\ end_date' = p.end
        /\ sidebar_error' = p.erro
        /\ botao' = pressionado
        /\ IF pressionado THEN
               \* line 167; an exception leaving the call ends the run
               \E r \in {obter_dados_tickers(tks, p.start, p.end, respostas)} :
                   /\ chamadas' = r.chamadas
                   /\ propagou' = r.propagou
                   /\ dados' = IF r.propagou THEN <<>> ELSE r.dados
                   /\ erros' = IF r.propagou THEN <<>> ELSE r.erros
                   /\ aviso' = (~r.propagou /\ r.erros # <<>>)
                   /\ abas' = IF ~r.propagou /\ r.dados # <<>>
                              THEN Abas(r.dados) ELSE <<>>
           ELSE
               \* the button returns False: nothing below line 165 runs
               /\ chamadas' = <<>>
               /\ propagou' = FALSE
               /\ dados' = <<>>
               /\ erros' = <<>>
               /\ aviso' = FALSE
               /\ abas' = <<>>

InitApp ==
    /\ tickers = ParseTickers(TextoPadrao)
    /\ tipo_periodo = Atalhos
    /\ intervalo = Intervalos[1]
    /\ data_inicio = 0
    /\ data_final = 0
    /\ start_date = today - DiasDoIntervalo(Intervalos[1])
    /\ end_date = today
    /\ sidebar_error = FALSE
    /\ botao = FALSE
    /\ dados = <<>>
    /\ erros = <<>>
    /\ chamadas = <<>>
    /\ propagou = FALSE
    /\ aviso = FALSE
    /\ abas = <<>>

InitFuncoes ==
    /\ fv_valor = Num(0) /\ fv_tipo = "real" /\ fv_ret = Pendente
    /\ cg_history = <<>> /\ cg_ret = Pendente
    /\ vl_info = InfoVazia /\ vl_ret = Pendente

\* what line 134 makes of the texts the user can type, up to MaxTickers tickers
ListasDigitadas ==
    {tks \in {ParseTickers(texto) : texto \in Textos} : Len(tks) <= MaxTickers}

\* the user edits the ticker text field
EditarTickers ==
    /\ \E tks \in ListasDigitadas :
          Executar(tks, tipo_periodo, intervalo, data_inicio, data_final, FALSE, <<>>)
    /\ UNCHANGED <<fvVars, cgVars, vlVars>>

\* the user flips the radio; the widgets of the new mode show their defaults
EscolherTipoPeriodo ==
    /\ \/ /\ tipo_periodo = Personalizado
          /\ Executar(tickers, Atalhos, Intervalos[1], 0, 0, FALSE, <<>>)
       \/ /\ tipo_periodo = Atalhos
          /\ Executar(tickers, Personalizado, "", today - 30, today, FALSE, <<>>)
    /\ UNCHANGED <<fvVars, cgVars, vlVars>>

EscolherIntervalo ==
    /\ tipo_periodo = Atalhos
    /\ \E i \in 1..Len(Intervalos) :
          Executar(tickers, tipo_periodo, Intervalos[i], data_inicio, data_final,
                   FALSE, <<>>)
    /\ UNCHANGED <<fvVars, cgVars, vlVars>>

EscolherDataInicio ==
    /\ tipo_periodo = Personalizado
    /\ \E d \in DatasEscolhiveis :
          Executar(tickers, tipo_periodo, intervalo, d, data_final, FALSE, <<>>)
    /\ UNCHANGED <<fvVars, cgVars, vlVars>>

EscolherDataFinal ==
    /\ tipo_periodo = Personalizado
    /\ \E d \in DatasEscolhiveis :
          Executar(tickers, tipo_periodo, intervalo, data_inicio, d, FALSE, <<>>)
    /\ UNCHANGED <<fvVars, cgVars, vlVars>>

\* the user presses "Analisar"; the provider answers each call as it will
Analisar ==
    /\ \E respostas \in [1..Len(tickers) -> Respostas] :
          Executar(tickers, tipo_periodo, intervalo, data_inicio, data_final,
                   TRUE, respostas)
    /\ UNCHANGED <<fvVars, cgVars, vlVars>>

Init == InitApp /\ InitFuncoes

Next ==
    \/ EditarTickers
    \/ EscolherTipoPeriodo
    \/ EscolherIntervalo
    \/ EscolherDataInicio
    \/ EscolherDataFinal
    \/ Analisar

Spec == Init /\ [][Next]_vars

(***************************************************************************)
(* formatar_valor, criar_grafico_com_linhas and the valuation snapshot     *)
(* applied to inputs of their own                                          *)
(***************************************************************************)
InitFormatar ==
    /\ InitApp
    /\ \E e \in EntradasFV : fv_valor = e[1] /\ fv_tipo = e[2]
    /\ fv_ret = Pendente
    /\ cg_history = <<>> /\ cg_ret = Pendente
    /\ vl_info = InfoVazia /\ vl_ret = Pendente

ChamarFormatar ==
    /\ fv_ret = Pendente
    /\ fv_ret' = formatar_valor(fv_valor, fv_tipo)
    /\ UNCHANGED <<fv_valor, fv_tipo, cgVars, vlVars, appVars>>

SpecFormatar == InitFormatar /\ [][ChamarFormatar]_vars

InitGrafico ==
    /\ InitApp
    /\ fv_valor = Num(0) /\ fv_tipo = "real" /\ fv_ret = Pendente
    /\ cg_history \in Series /\ cg_ret = Pendente
    /\ vl_info = InfoVazia /\ vl_ret = Pendente

ChamarGrafico ==
    /\ cg_ret = Pendente
    /\ cg_ret' = criar_grafico_com_linhas(cg_history, <<"A">>)
    /\ UNCHANGED <<cg_history, fvVars, vlVars, appVars>>

SpecGrafico == InitGrafico /\ [][ChamarGrafico]_vars

InitValuation ==
    /\ InitApp
    /\ fv_valor = Num(0) /\ fv_tipo = "real" /\ fv_ret = Pendente
    /\ cg_history = <<>> /\ cg_ret = Pendente
    /\ vl_info \in Infos /\ vl_ret = Pendente

ChamarValuation ==
    /\ vl_ret = Pendente
    /\ vl_ret' = valuation(vl_info)
    /\ UNCHANGED <<vl_info, fvVars, cgVars, appVars>>

SpecValuation == InitValuation /\ [][ChamarValuation]_vars

(***************************************************************************)
(* Properties                                                              *)
(***************************************************************************)
\* the provider returned a non-empty history and the metadata access succeeded
ChamadaOk(c) == c.resposta.k = "ok" /\ c.resposta.history # <<>>

\* the provider returned an empty history without raising
ChamadaVazia(c) == c.resposta.k # "history_raises" /\ c.resposta.history = <<>>

\* the error string the retrieval contract asks for a failed call
MensagemEsperada(c) ==
    IF ChamadaVazia(c) THEN c.ticker \o MsgSemDados
    ELSE c.ticker \o MsgErroAbre \o c.resposta.e.msg \o MsgErroFecha

RECURSIVE ErrosEsperados(_, _)
ErrosEsperados(cs, i) ==
    IF i > Len(cs) THEN <<>>
    ELSE (IF ChamadaOk(cs[i]) THEN <<>> ELSE <<MensagemEsperada(cs[i])>>)
         \o ErrosEsperados(cs, i + 1)

\* the error string msg names ticker t
Nomeia(msg, t) == IsPrefix(t \o MsgSemDados, msg) \/ IsPrefix(t \o MsgErroAbre, msg)

\* the last successful call for the symbol of call i
UltimaOk(i) ==
    CHOOSE j \in 1..Len(chamadas) :
        /\ chamadas[j].ticker = chamadas[i].ticker /\ ChamadaOk(chamadas[j])
        /\ \A m \in (j + 1)..Len(chamadas) :
              ~(chamadas[m].ticker = chamadas[i].ticker /\ ChamadaOk(chamadas[m]))

\* C1: after a press, obter_dados_tickers has returned normally, has called the
\* provider once per entry of the ticker list, in list order, and every entry
\* whose history was non-empty and whose metadata access succeeded is a key of
\* dados holding the metadata and history of the (last) successful call for
\* that symbol, whatever the other entries did.
C1_CadaTickerTentado ==
    botao =>
        /\ ~propagou
        /\ Len(chamadas) = Len(tickers)
        /\ \A i \in 1..Len(tickers) : chamadas[i].ticker = tickers[i]
        /\ \A i \in 1..Len(chamadas) :
              ChamadaOk(chamadas[i]) =>
                  /\ DictHas(dados, tickers[i])
                  /\ DictGet(dados, tickers[i]) =
                        [info |-> chamadas[UltimaOk(i)].resposta.info,
                         history |-> chamadas[UltimaOk(i)].resposta.history]

C1_Witness ==
    /\ botao
    /\ Len(tickers) = 2
    /\ tickers[1] # tickers[2]
    /\ chamadas[1].resposta.k = "info_raises"
    /\ ChamadaOk(chamadas[2])
    /\ DictKeys(dados) = <<tickers[2]>>

\* C2: after a press, no ticker is both a key of dados and named in erros.
C2_SucessoEFalhaDisjuntos ==
    botao =>
        \A i \in 1..Len(dados) : \A j \in 1..Len(erros) :
            ~Nomeia(erros[j], dados[i].key)

\* C3: after a press, erros holds exactly one string per failed entry of the
\* ticker list, in list order, each beginning with the entry's symbol; it is
\* the no-data message when the history was empty and nothing was raised, and
\* carries the exception text when the history call or the metadata access
\* raised; a successful entry contributes nothing.
C3_UmErroPorFalha ==
    botao =>
        /\ erros = ErrosEsperados(chamadas, 1)
        /\ Len(erros) = Cardinality({i \in 1..Len(chamadas) : ~ChamadaOk(chamadas[i])})
        /\ \A j \in 1..Len(erros) :
              \E i \in 1..Len(tickers) :
                  ~ChamadaOk(chamadas[i]) /\ IsPrefix(tickers[i], erros[j])

C3_Witness ==
    /\ botao
    /\ Len(tickers) = 2
    /\ chamadas[1].resposta.k = "history_raises"
    /\ ChamadaVazia(chamadas[2])
    /\ erros = << tickers[1] \o MsgErroAbre \o <<"timed out">> \o MsgErroFecha,
                  tickers[2] \o MsgSemDados >>

\* C7 as claimed: every retrieval is invoked with start <= end.
C7_InicioNaoDepoisDoFim ==
    botao => \A i \in 1..Len(chamadas) : chamadas[i].start <= chamadas[i].end

\* C7 amended: every retrieval is invoked with the date range the sidebar
\* resolved; in shortcut mode start <= end, and a retrieval with start > end
\* happens only in custom mode, with the validation message showing.
C7_InicioDepoisDoFimSoPersonalizado ==
    botao =>
        /\ \A i \in 1..Len(chamadas) :
              chamadas[i].start = start_date /\ chamadas[i].end = end_date
        /\ tipo_periodo = Atalhos => start_date <= end_date
        /\ start_date > end_date => (tipo_periodo = Personalizado /\ sidebar_error)

C7_Witness ==
    /\ botao
    /\ tipo_periodo = Atalhos
    /\ intervalo = "12 meses"
    /\ chamadas # <<>>
    /\ chamadas[1].start = today - 365
    /\ chamadas[1].end = today

\* C8: the validation message shows exactly when the mode is custom and
\* start > end; the button still works there: a press calls the provider for
\* every ticker with that window, and when every call returns an empty
\* history, dados is empty and erros is the no-data message of each ticker.
C8_ValidacaoNaoBloqueia ==
    /\ sidebar_error <=> (tipo_periodo = Personalizado /\ data_inicio > data_final)
    /\ (tipo_periodo = Personalizado /\ data_inicio > data_final) => ENABLED Analisar
    /\ (botao /\ tipo_periodo = Personalizado /\ data_inicio > data_final) =>
          /\ Len(chamadas) = Len(tickers)
          /\ \A i \in 1..Len(tickers) :
                /\ chamadas[i].ticker = tickers[i]
                /\ chamadas[i].start = data_inicio
                /\ chamadas[i].end = data_final
          /\ (\A i \in 1..Len(chamadas) : ChamadaVazia(chamadas[i])) =>
                /\ dados = <<>>
                /\ abas = <<>>
                /\ aviso
                /\ erros = [i \in 1..Len(tickers) |-> tickers[i] \o MsgSemDados]

C8_Witness ==
    /\ botao
    /\ sidebar_error
    /\ start_date > end_date
    /\ Len(tickers) = 2
    /\ \A i \in 1..Len(chamadas) : ChamadaVazia(chamadas[i])
    /\ Len(erros) = 2

\* C9: criar_grafico_com_linhas returns None exactly when the series is
\* empty, and after a press every history stored in dados is non-empty, so
\* every tab renders a chart that is not None and never the fallback.
C9_GraficoNuncaNulo ==
    /\ \A h \in {<<>>, HistoricoA, HistoricoB} :
          (criar_grafico_com_linhas(h, <<"A">>) = NoneV) <=> (h = <<>>)
    /\ \A i \in 1..Len(dados) : dados[i].value.history # <<>>
    /\ \A i \in 1..Len(abas) :
          /\ abas[i].grafico.k = "plotly_chart"
          /\ abas[i].grafico.fig # NoneV

C9_Witness ==
    /\ botao
    /\ Len(abas) = 1
    /\ abas[1].grafico.k = "plotly_chart"
    /\ abas[1].grafico.fig.k = "fig"
    /\ \E i \in 1..Len(chamadas) : ChamadaVazia(chamadas[i])

\* C10: what is shown after a press comes from that press alone: one provider
\* call per entry of the ticker list, every key of dados is a ticker of the
\* list with the result of one of these calls, every error string is the
\* failure of one of these calls, the warning panel shows exactly when erros
\* is non-empty and there is one tab per key of dados; a run without a press
\* shows none of them.
C10_CadaCliqueDoZero ==
    /\ botao =>
          /\ Len(chamadas) = Len(tickers)
          /\ \A i \in 1..Len(dados) :
                \E j \in 1..Len(tickers) :
                    /\ tickers[j] = dados[i].key
                    /\ chamadas[j].ticker = tickers[j]
                    /\ ChamadaOk(chamadas[j])
                    /\ dados[i].value = [info |-> chamadas[j].resposta.info,
                                         history |-> chamadas[j].resposta.history]
          /\ \A i \in 1..Len(erros) :
                \E j \in 1..Len(tickers) :
                    /\ chamadas[j].ticker = tickers[j]
                    /\ ~ChamadaOk(chamadas[j])
                    /\ erros[i] = MensagemEsperada(chamadas[j])
          /\ aviso <=> (erros # <<>>)
          /\ Len(abas) = Len(dados)
          /\ \A i \in 1..Len(abas) : abas[i].ticker = dados[i].key
    /\ ~botao => (dados = <<>> /\ erros = <<>> /\ ~aviso /\ abas = <<>>)

C10_Witness ==
    /\ botao
    /\ Len(tickers) = 2
    /\ Len(dados) = 1
    /\ Len(erros) = 1
    /\ aviso
    /\ Len(abas) = 1
    /\ abas[1].ticker = tickers[2]

\* the currency rendering the formatter's contract asks for: "R$ ", the
\* integer part grouped in threes with ".", then "," and two decimal digits
FormatoBrasileiro(c) ==
    <<"R", "$", " ">>
    \o ReplaceAll(Agrupado(c \div 100), ",", ".")
    \o <<",">>
    \o <<DigitChars[((c % 100) \div 10) + 1], DigitChars[(c % 10) + 1]>>

\* C4: formatar_valor with kind "real" returns "N/A" for a not-a-number and,
\* for a non-negative amount, "R$ " + the integer part grouped with "." +
\* "," + two decimals (1234.5 gives "R$ 1.234,50", 12.5 gives "R$ 12,50").
C4_FormatoReal ==
    (fv_ret # Pendente /\ fv_tipo = "real") =>
        IF isna(fv_valor) THEN fv_ret = Texto(<<"N", "/", "A">>)
        ELSE fv_valor.n >= 0 => fv_ret = Texto(FormatoBrasileiro(fv_valor.n))

\* C5: for a non-empty series the upper line is at the maximum, the lower
\* line at the minimum, the marker at the last element, green exactly when
\* the last close is strictly above the one before it and red otherwise
\* (a single element and equal last closes are red).
C5_ExtremosEMarcador ==
    (cg_ret # Pendente /\ cg_history # <<>>) =>
        LET n == Len(cg_history) IN
        /\ cg_ret.k = "fig"
        /\ cg_ret.hline_max.y \in SeqRange(cg_history)
        /\ \A i \in 1..n : cg_history[i] <= cg_ret.hline_max.y
        /\ cg_ret.hline_min.y \in SeqRange(cg_history)
        /\ \A i \in 1..n : cg_ret.hline_min.y <= cg_history[i]
        /\ cg_ret.marcador.y = cg_history[n]
        /\ cg_ret.marcador.x = n
        /\ cg_ret.marcador.cor \in {"green", "red"}
        /\ cg_ret.marcador.cor = "green" <=> (n > 1 /\ cg_history[n] > cg_history[n - 1])
        /\ cg_history = <<1000, 1200, 800, 1500, 900>> =>
              /\ cg_ret.hline_max.y = 1500
              /\ cg_ret.hline_min.y = 800
              /\ cg_ret.marcador.y = 900
              /\ cg_ret.marcador.cor = "red"
        /\ cg_history = <<2000>> =>
              (cg_ret.marcador.y = 2000 /\ cg_ret.marcador.cor = "red")

C5_Witness ==
    /\ cg_history = <<1000, 1200, 800, 1500, 900>>
    /\ cg_ret # Pendente
    /\ cg_ret.k = "fig"
    /\ cg_ret.marcador.cor = "red"

\* the metadata field behind each of the five snapshot fields
CampoDe ==
    << "trailingPE", "forwardPE", "priceToBook", "dividendYield", "payoutRatio" >>

\* C6: the snapshot has exactly the five fields, every value is a number, an
\* omitted field is 0, the two percentage fields are the metadata value times
\* 100 and the three ratio fields are the metadata value unscaled.
C6_SnapshotNumerico ==
    vl_ret # Pendente =>
        /\ DictKeys(vl_ret) = << "P/L (Preco/Lucro)", "P/L Projetado", "P/VP",
                                 "Dividend Yield (%)", "Payout Ratio (%)" >>
        /\ \A i \in 1..Len(vl_ret) :
              /\ vl_ret[i].value.k = "num"
              /\ CampoDe[i] \notin DOMAIN vl_info => vl_ret[i].value = Num(0)
              /\ (CampoDe[i] \in DOMAIN vl_info /\ vl_info[CampoDe[i]].k = "num") =>
                    vl_ret[i].value =
                        IF CampoDe[i] \in CamposPercentuais
                        THEN Num(vl_info[CampoDe[i]].n * 100)
                        ELSE vl_info[CampoDe[i]]

=============================================================================
